---------------------------- MODULE Spec2Model ----------------------------
(***************************************************************************)
(* A model of Simple_OTP (src/main.c): one process that parses its command *)
(* line, opens three files and runs encrypt or decrypt over them, block by *)
(* block, one C statement per step.  The file system is the environment:   *)
(* it chooses what fopen finds, it may cut the tail of an input file while *)
(* the engine runs, and the user may run the program a second time on the  *)
(* two files a successful encryption wrote.                                *)
(***************************************************************************)
EXTENDS Integers, Sequences, FiniteSets, TLC

(*************************** bounds of the model ***************************)
\* longest command line explored (argv[1..])
MaxArgs == 4
\* longest file the environment offers: two full blocks and a 1-byte tail
MaxLen == 17
\* how many different 64-bit words the random source may return
NumPadWords == 2
\* how many different contents the environment offers per file length
NumSeeds == 2
\* how many trailing bytes a concurrent truncation may remove
MaxCut == 1

(**************************** program constants ****************************)
\* #define ULL_SIZE sizeof(unsigned long long)
ULL_SIZE == 8
\* stdlib's EXIT_FAILURE, the argument of main's exit(EXIT_FAILURE) calls
EXIT_FAILURE == 1
\* print_usage: exit(2)
EXIT_USAGE == 2
\* invalid_file_size: exit(2)
EXIT_INVALID_SIZE == 2
\* size_missmatch: exit(3)
EXIT_SIZE_MISMATCH == 3
\* encrypt, when _rdrand64_step returns 0: exit(3)
EXIT_RDRAND == 3
\* what main returns by reaching its closing brace
EXIT_SUCCESS == 0

\* a null char pointer
NULL == "<null>"
\* the name main gives the pad when -p was not used
DefaultOtpName == "one-time-pad.otp"
\* the name main gives encrypt's output
EncOutputName == "output.txt"

\* E_PROGRAM_MODE
OTP_ENCRYPT == "OTP_ENCRYPT"
OTP_DECRYPT == "OTP_DECRYPT"
OTP_NULLMODE == "OTP_NULLMODE"

(***************************** bytes and words *****************************)
Byte == 0..255

RECURSIVE XorBits(_, _, _)
\* bitwise exclusive or of the low k bits of a and b
XorBits(a, b, k) ==
    IF k = 0 THEN 0
    ELSE (((a % 2) + (b % 2)) % 2) + (2 * XorBits(a \div 2, b \div 2, k - 1))

\* "+=" in place of "^=": bytewise addition
AddUll(x, y) == [j \in 1..ULL_SIZE |-> (x[j] + y[j]) % 256]

\* cipher_pad.ull ^= one_time_pad.ull, seen through the union's c[] view:
\* exclusive or acts on each of the ULL_SIZE bytes separately
XorUll(x, y) == [j \in 1..ULL_SIZE |-> XorBits(x[j], y[j], 8)]

\* char_container c = {0}
ZeroContainer == [j \in 1..ULL_SIZE |-> 0]

\* the 64-bit values _rdrand64_step may store, as the bytes of the union
PadWords == { [j \in 1..ULL_SIZE |-> ((k * 97) + (j * 41)) % 256] : k \in 1..NumPadWords }

\* the files the environment may hold
Files == { [j \in 1..n |-> ((s * 59) + (j * 23)) % 256] : n \in 0..MaxLen, s \in 1..NumSeeds }

\* the options and names a command line is made of.  "-x" stands for any
\* option letter main's switch does not know, "f" for any word that does
\* not start with '-'
Tokens == {"-e", "-d", "-p", "-o", "-v", "--", "-x", "f"}

\* argv[1][0] == '-'
IsDash(tok) == tok # "f"

\* argv[1][1]
OptChar(tok) ==
    CASE tok = "-e" -> "e"
      [] tok = "-d" -> "d"
      [] tok = "-p" -> "p"
      [] tok = "-o" -> "o"
      [] tok = "-v" -> "v"
      [] tok = "--" -> "-"
      [] OTHER -> "x"

\* all command lines of at most MaxArgs words after the program name
CommandLines == UNION { [1..n -> Tokens] : n \in 0..MaxArgs }

(******************************** stdio ************************************)
\* fread(buf, 1, n, fp): the bytes the stream still holds, at most n, land
\* at the start of buf; the rest of buf keeps what it held
FreadCount(data, pos, n) ==
    IF Len(data) - pos >= n THEN n
    ELSE IF Len(data) > pos THEN Len(data) - pos ELSE 0

FreadBuf(buf, data, pos, n) ==
    [j \in 1..ULL_SIZE |->
        IF j <= FreadCount(data, pos, n) THEN data[pos + j] ELSE buf[j]]

\* fwrite(buf, 1, n, fp): the first n bytes of buf are appended
Fwrite(data, buf, n) == data \o [j \in 1..n |-> buf[j]]

\* fsize: ftell at SEEK_END; the position is restored and no byte is read
fsize(data) == Len(data)

VARIABLES
    pc,               \* where the process is
    argc, args,       \* main's argc, and argv[1..] as main's argv sees it
    program_mode, input_file_name, otp_file_name,
    verbose_print, verbose_printer,
    devnull_open, stdout_open,   \* the two streams verbose_printer may be
    devnull_closes,   \* fclose calls that closed the /dev/null stream
    wrote_closed,     \* main wrote a debug line to a closed stream
    in_data, in_pos,  \* the input file and the read position in it
    otp_data, otp_pos,\* the pad file and the read position in it
    out_data,         \* the output file
    cipher_size, otp_size, quot, rem, i,   \* locals of encrypt / decrypt
    one_time_pad, cipher_pad,              \* the two char_containers
    exit_code, failure,   \* the process status, and why it ended
    draws,            \* the words _rdrand64_step returned so far
    rand_failed,      \* _rdrand64_step has returned 0
    entry_in, entry_pad,  \* the input and pad files as the engine found them
    plain,            \* the plaintext of the run before this one
    torn,             \* an input file was cut while the engine ran
    short_at,         \* output length when fread first came up short
    run,              \* 1, or 2 after the user ran the program again
    disk              \* the two files a finished encryption left behind

argVars == <<argc, args>>
optVars == <<program_mode, input_file_name, otp_file_name>>
logVars == <<verbose_print, verbose_printer, devnull_open, stdout_open,
             devnull_closes, wrote_closed>>
fileVars == <<in_data, in_pos, otp_data, otp_pos, out_data>>
engVars == <<cipher_size, otp_size, quot, rem, i, one_time_pad, cipher_pad>>
exitVars == <<exit_code, failure>>
ghostVars == <<draws, rand_failed, entry_in, entry_pad, plain, torn, short_at>>
procVars == <<run, disk>>
vars == <<pc, argVars, optVars, logVars, fileVars, engVars, exitVars,
          ghostVars, procVars>>

\* a value no file has: "not measured yet"
NoFile == <<-1>>

\* the state of a fresh process given its command line
Fresh(cmd) ==
    /\ pc = "start"
    /\ argc = Len(cmd) + 1
    /\ args = cmd
    /\ program_mode = OTP_NULLMODE
    /\ input_file_name = NULL
    /\ otp_file_name = NULL
    /\ verbose_print = FALSE
    /\ verbose_printer = "devnull"
    /\ devnull_open = TRUE
    /\ stdout_open = TRUE
    /\ devnull_closes = 0
    /\ wrote_closed = FALSE
    /\ in_data = <<>> /\ in_pos = 0
    /\ otp_data = <<>> /\ otp_pos = 0
    /\ out_data = <<>>
    /\ cipher_size = 0 /\ otp_size = 0 /\ quot = 0 /\ rem = 0 /\ i = 0
    /\ one_time_pad = ZeroContainer
    /\ cipher_pad = ZeroContainer
    /\ exit_code = -1
    /\ failure = "none"
    /\ draws = <<>>
    /\ rand_failed = FALSE
    /\ entry_in = NoFile /\ entry_pad = NoFile

Init ==
    /\ \E cmd \in CommandLines : Fresh(cmd)
    /\ plain = NoFile
    /\ torn = FALSE
    /\ short_at = -1
    /\ run = 1
    /\ disk = [cipher |-> NoFile, pad |-> NoFile]

(***************************** process exit ********************************)
\* exit(code): the process is gone, nothing else of it moves again
Exit(code, why) ==
    /\ pc' = "exited"
    /\ exit_code' = code
    /\ failure' = why

\* print_usage: exit(2)
print_usage == Exit(EXIT_USAGE, "Usage")

\* invalid_file_size: exit(2)
invalid_file_size == Exit(EXIT_INVALID_SIZE, "InvalidSize")

\* size_missmatch: exit(3)
size_missmatch == Exit(EXIT_SIZE_MISMATCH, "SizeMismatch")

(****************************** main: options ******************************)
\* argv[1] after ++argv: the next word, or argv's terminating null pointer
Argv1(rest) == IF rest = <<>> THEN NULL ELSE Head(rest)

\* ++argv, as far as argv[1..] can tell
Shift(rest) == IF rest = <<>> THEN <<>> ELSE Tail(rest)

\* is the stream verbose_printer points at open
VerboseOpen == IF verbose_printer = "stdout" THEN stdout_open ELSE devnull_open

\* fprintf(verbose_printer, ...): a debug line; writing to a closed stream
\* is recorded
DebugPrint == wrote_closed' = (wrote_closed \/ ~VerboseOpen)

\* lines 102-105
MainStart ==
    /\ pc = "start"
    /\ IF argc <= 1
         THEN print_usage
         ELSE pc' = "args" /\ UNCHANGED exitVars
    /\ UNCHANGED <<argVars, optVars, logVars, fileVars, engVars, ghostVars, procVars>>

\* the loop condition of line 108
MoreOptions == argc > 1 /\ IsDash(Head(args))

\* case 'e' and the loop's --argc, ++argv
OptE ==
    /\ pc = "args" /\ MoreOptions /\ OptChar(Head(args)) = "e"
    /\ IF program_mode = OTP_DECRYPT
         THEN /\ Exit(EXIT_FAILURE, "Conflict")
              /\ UNCHANGED <<argVars, optVars>>
         ELSE /\ input_file_name' = Argv1(Tail(args))
              /\ program_mode' = OTP_ENCRYPT
              /\ args' = Shift(Tail(args))
              /\ argc' = argc - 2
              /\ UNCHANGED <<pc, otp_file_name, exitVars>>
    /\ UNCHANGED <<logVars, fileVars, engVars, ghostVars, procVars>>

\* case 'd' and the loop's --argc, ++argv
OptD ==
    /\ pc = "args" /\ MoreOptions /\ OptChar(Head(args)) = "d"
    /\ IF program_mode = OTP_ENCRYPT
         THEN /\ Exit(EXIT_FAILURE, "Conflict")
              /\ UNCHANGED <<argVars, optVars>>
         ELSE /\ input_file_name' = Argv1(Tail(args))
              /\ program_mode' = OTP_DECRYPT
              /\ args' = Shift(Tail(args))
              /\ argc' = argc - 2
              /\ UNCHANGED <<pc, otp_file_name, exitVars>>
    /\ UNCHANGED <<logVars, fileVars, engVars, ghostVars, procVars>>

\* case 'p' and the loop's --argc, ++argv
OptP ==
    /\ pc = "args" /\ MoreOptions /\ OptChar(Head(args)) = "p"
    /\ otp_file_name' = Argv1(Tail(args))
    /\ args' = Shift(Tail(args))
    /\ argc' = argc - 2
    /\ UNCHANGED <<pc, program_mode, input_file_name, exitVars>>
    /\ UNCHANGED <<logVars, fileVars, engVars, ghostVars, procVars>>

\* case 'o' and case '-': break, then the loop's --argc, ++argv
OptNoop ==
    /\ pc = "args" /\ MoreOptions /\ OptChar(Head(args)) \in {"o", "-"}
    /\ args' = Tail(args)
    /\ argc' = argc - 1
    /\ UNCHANGED <<pc, optVars, exitVars>>
    /\ UNCHANGED <<logVars, fileVars, engVars, ghostVars, procVars>>

\* case 'v': fclose(verbose_printer); verbose_print = true;
\* verbose_printer = stdout.  Closing a stream twice is undefined: the
\* process may crash or go on
OptV ==
    /\ pc = "args" /\ MoreOptions /\ OptChar(Head(args)) = "v"
    /\ IF verbose_printer = "devnull"
         THEN /\ devnull_open' = FALSE
              /\ devnull_closes' = devnull_closes + 1
              /\ UNCHANGED stdout_open
              /\ pc' = "args"
         ELSE /\ stdout_open' = FALSE
              /\ UNCHANGED <<devnull_open, devnull_closes>>
              /\ pc' \in (IF stdout_open THEN {"args"} ELSE {"args", "crashed"})
    /\ verbose_print' = TRUE
    /\ verbose_printer' = "stdout"
    /\ args' = Tail(args)
    /\ argc' = argc - 1
    /\ UNCHANGED <<wrote_closed, optVars, exitVars>>
    /\ UNCHANGED <<fileVars, engVars, ghostVars, procVars>>

\* default: print_usage
OptInvalid ==
    /\ pc = "args" /\ MoreOptions /\ OptChar(Head(args)) = "x"
    /\ print_usage
    /\ UNCHANGED <<argVars, optVars, logVars, fileVars, engVars, ghostVars, procVars>>

\* the loop ends and main reaches switch (program_mode).  argc and argv are
\* not read again: the model forgets them
OptionsDone ==
    /\ pc = "args" /\ ~MoreOptions
    /\ pc' = CASE program_mode = OTP_ENCRYPT -> "enc_open_in"
               [] program_mode = OTP_DECRYPT -> "dec_open_in"
               [] OTHER -> "finish"
    /\ args' = <<>>
    /\ argc' = 0
    /\ UNCHANGED <<optVars, logVars, fileVars, engVars, exitVars, ghostVars, procVars>>

(******************************* main: files *******************************)
\* what a name resolves to: on the second run the two names resolve to the
\* files the first run wrote; any other name is a file of the environment
Found(name) ==
    IF name = EncOutputName /\ disk.cipher # NoFile THEN {disk.cipher}
    ELSE IF name = DefaultOtpName /\ disk.pad # NoFile THEN {disk.pad}
    ELSE Files

\* fopen(name, "rb"): a stream on an existing file, or NULL.  A null name
\* is undefined behaviour: fopen fails or the process crashes
OpenRead(name, found) ==
    IF name = NULL
      THEN {[res |-> "fail", data |-> <<>>], [res |-> "crash", data |-> <<>>]}
      ELSE {[res |-> "fail", data |-> <<>>]}
           \cup {[res |-> "ok", data |-> f] : f \in found}

\* fopen(name, "wb"): a stream on the file, now empty, or NULL
OpenWrite == {"ok", "fail"}

\* where the process is after a debug line: writing to a closed stream is
\* undefined, the process may crash
AfterDebug(next) == IF VerboseOpen THEN {next} ELSE {next, "crashed"}

\* lines 154-163 (encrypt) and 205-214 (decrypt): open the input file
OpenInput(here, next) ==
    /\ pc = here
    /\ \E r \in OpenRead(input_file_name, Found(input_file_name)) :
         IF r.res = "ok"
           THEN /\ in_data' = r.data
                /\ DebugPrint
                /\ pc' \in AfterDebug(next)
                /\ UNCHANGED exitVars
           ELSE /\ IF r.res = "fail"
                     THEN Exit(EXIT_FAILURE, "OpenFailed")
                     ELSE pc' = "crashed" /\ UNCHANGED exitVars
                /\ UNCHANGED <<in_data, wrote_closed>>
    /\ UNCHANGED <<verbose_print, verbose_printer, devnull_open, stdout_open,
                   devnull_closes>>
    /\ UNCHANGED <<in_pos, otp_data, otp_pos, out_data>>
    /\ UNCHANGED <<argVars, optVars, engVars, ghostVars, procVars>>

EncOpenInput == OpenInput("enc_open_in", "enc_open_otp")

DecOpenInput == OpenInput("dec_open_in", "dec_open_otp")

\* lines 166-170: the pad's name, the default one when -p was not used
OtpName == IF otp_file_name = NULL THEN DefaultOtpName ELSE otp_file_name

\* lines 166-181: pick the pad's name and open it for writing.  Opening
\* for writing empties the file, also when it is the input file.  Neither
\* name is read again after this: the model forgets them
EncOpenOtp ==
    /\ pc = "enc_open_otp"
    /\ \E r \in OpenWrite :
         IF r = "ok"
           THEN /\ otp_data' = <<>>
                /\ in_data' = (IF OtpName = input_file_name THEN <<>> ELSE in_data)
                /\ DebugPrint
                /\ pc' \in AfterDebug("enc_open_out")
                /\ UNCHANGED exitVars
           ELSE /\ Exit(EXIT_FAILURE, "OpenFailed")
                /\ wrote_closed' = (wrote_closed \/ (otp_file_name = NULL /\ ~VerboseOpen))
                /\ UNCHANGED <<otp_data, in_data>>
    /\ input_file_name' = NULL
    /\ otp_file_name' = NULL
    /\ UNCHANGED <<verbose_print, verbose_printer, devnull_open, stdout_open,
                   devnull_closes>>
    /\ UNCHANGED <<in_pos, otp_pos, out_data, program_mode>>
    /\ UNCHANGED <<argVars, engVars, ghostVars, procVars>>

\* lines 217-227: open the pad for reading.  Neither name is read again
\* after this: the model forgets them
DecOpenOtp ==
    /\ pc = "dec_open_otp"
    /\ \E r \in OpenRead(otp_file_name,
                         IF otp_file_name = input_file_name
                           THEN {in_data} ELSE Found(otp_file_name)) :
         IF r.res = "ok"
           THEN /\ otp_data' = r.data
                /\ DebugPrint
                /\ pc' \in AfterDebug("dec_open_out")
                /\ UNCHANGED exitVars
           ELSE /\ IF r.res = "fail"
                     THEN Exit(EXIT_FAILURE, "OpenFailed")
                     ELSE pc' = "crashed" /\ UNCHANGED exitVars
                /\ UNCHANGED <<otp_data, wrote_closed>>
    /\ input_file_name' = NULL
    /\ otp_file_name' = NULL
    /\ UNCHANGED <<verbose_print, verbose_printer, devnull_open, stdout_open,
                   devnull_closes>>
    /\ UNCHANGED <<in_data, in_pos, otp_pos, out_data, program_mode>>
    /\ UNCHANGED <<argVars, engVars, ghostVars, procVars>>

\* lines 184-196 (encrypt) and 230-242 (decrypt): open the output file and
\* call the engine
OpenOutput(here, next) ==
    /\ pc = here
    /\ \E r \in OpenWrite :
         IF r = "ok"
           THEN /\ out_data' = <<>>
                /\ DebugPrint
                /\ pc' \in AfterDebug(next)
                /\ UNCHANGED exitVars
           ELSE /\ Exit(EXIT_FAILURE, "OpenFailed")
                /\ UNCHANGED <<out_data, wrote_closed>>
    /\ UNCHANGED <<verbose_print, verbose_printer, devnull_open, stdout_open,
                   devnull_closes>>
    /\ UNCHANGED <<in_data, in_pos, otp_data, otp_pos>>
    /\ UNCHANGED <<argVars, optVars, engVars, ghostVars, procVars>>

EncOpenOutput == OpenOutput("enc_open_out", "enc_size")

DecOpenOutput == OpenOutput("dec_open_out", "dec_size")

\* lines 199-202 and 243-247: the engine returned, main closes the three
\* files and leaves the switch
EngineReturned ==
    /\ pc \in {"enc_done", "dec_done"}
    /\ pc' = "finish"
    /\ UNCHANGED <<argVars, optVars, logVars, fileVars, engVars, exitVars,
                   ghostVars, procVars>>

\* lines 250-252: if (!verbose_print) fclose(verbose_printer); main returns
Finish ==
    /\ pc = "finish"
    /\ IF ~verbose_print
         THEN /\ devnull_open' = (IF verbose_printer = "devnull" THEN FALSE ELSE devnull_open)
              /\ devnull_closes' = devnull_closes + (IF verbose_printer = "devnull" THEN 1 ELSE 0)
              /\ stdout_open' = (IF verbose_printer = "stdout" THEN FALSE ELSE stdout_open)
         ELSE UNCHANGED <<devnull_open, devnull_closes, stdout_open>>
    /\ pc' = "returned"
    /\ exit_code' = EXIT_SUCCESS
    /\ UNCHANGED <<failure, verbose_print, verbose_printer, wrote_closed>>
    /\ UNCHANGED <<argVars, optVars, fileVars, engVars, ghostVars, procVars>>

(***************************** engine: helpers *****************************)
\* "<" in place of "<=": an empty file passes
InvalidSizeStrict(sz) == sz < 0

\* if (size <= 0)
InvalidSize(sz) == sz <= 0

\* "<" in place of "!=": a pad shorter than the cipher text passes
SizesDifferShortCipher(a, b) == a < b

\* if (cipher_size != otp_size)
SizesDiffer(a, b) == a # b

\* the last block handled as a whole block
RemainWholeBlock == ULL_SIZE

\* size_t remain = (size_t) blocks_r.rem: the bytes of the last block
Remain == rem

\* the drawn word is not stored: the register keeps the word it held
RdrandNotStored(w, old) == old

\* what _rdrand64_step leaves in one_time_pad.ull when it succeeds with w
Rdrand(w, old) == w

\* the return value of _rdrand64_step is not tested: encrypt goes on
RdrandFailureIgnored(next) == pc' = next /\ UNCHANGED exitVars

\* if (!_rdrand64_step(...)) { ...; exit(3); }
RdrandFailed(next) == Exit(EXIT_RDRAND, "EntropyUnavailable")

\* printf on stdout; on a closed stdout the process may crash
AfterPrintf(next) == IF stdout_open THEN {next} ELSE {next, "crashed"}

\* a successful _rdrand64_step(&one_time_pad.ull)
Draw(here, next) ==
    /\ pc = here
    /\ \E w \in PadWords :
         /\ one_time_pad' = Rdrand(w, one_time_pad)
         /\ draws' = Append(draws, w)
    /\ pc' \in next
    /\ UNCHANGED <<cipher_size, otp_size, quot, rem, i, cipher_pad>>
    /\ UNCHANGED <<rand_failed, entry_in, entry_pad, plain, torn, short_at>>
    /\ UNCHANGED <<argVars, optVars, logVars, fileVars, exitVars, procVars>>

\* _rdrand64_step returns 0 (and stores 0)
DrawFail(here, next) ==
    /\ pc = here
    /\ one_time_pad' = ZeroContainer
    /\ rand_failed' = TRUE
    /\ RdrandFailed(next)
    /\ UNCHANGED <<cipher_size, otp_size, quot, rem, i, cipher_pad>>
    /\ UNCHANGED <<draws, entry_in, entry_pad, plain, torn, short_at>>
    /\ UNCHANGED <<argVars, optVars, logVars, fileVars, procVars>>

\* fwrite(one_time_pad.c, sizeof(char), n, otp)
WritePad(here, next, n) ==
    /\ pc = here
    /\ otp_data' = Fwrite(otp_data, one_time_pad, n)
    /\ pc' = next
    /\ UNCHANGED <<in_data, in_pos, otp_pos, out_data>>
    /\ UNCHANGED <<argVars, optVars, logVars, engVars, exitVars, ghostVars, procVars>>

\* fread(one_time_pad.c, sizeof(char), n, otp)
ReadPad(here, next, n) ==
    /\ pc = here
    /\ one_time_pad' = FreadBuf(one_time_pad, otp_data, otp_pos, n)
    /\ otp_pos' = otp_pos + FreadCount(otp_data, otp_pos, n)
    /\ short_at' = (IF short_at = -1 /\ FreadCount(otp_data, otp_pos, n) < n
                      THEN Len(out_data) ELSE short_at)
    /\ pc' = next
    /\ UNCHANGED <<in_data, in_pos, otp_data, out_data>>
    /\ UNCHANGED <<cipher_size, otp_size, quot, rem, i, cipher_pad>>
    /\ UNCHANGED <<draws, rand_failed, entry_in, entry_pad, plain, torn>>
    /\ UNCHANGED <<argVars, optVars, logVars, exitVars, procVars>>

\* fread(cipher_pad.c, sizeof(char), n, plain_text / cipher_text)
ReadInput(here, next, n) ==
    /\ pc = here
    /\ cipher_pad' = FreadBuf(cipher_pad, in_data, in_pos, n)
    /\ in_pos' = in_pos + FreadCount(in_data, in_pos, n)
    /\ short_at' = (IF short_at = -1 /\ FreadCount(in_data, in_pos, n) < n
                      THEN Len(out_data) ELSE short_at)
    /\ pc' = next
    /\ UNCHANGED <<in_data, otp_data, otp_pos, out_data>>
    /\ UNCHANGED <<cipher_size, otp_size, quot, rem, i, one_time_pad>>
    /\ UNCHANGED <<draws, rand_failed, entry_in, entry_pad, plain, torn>>
    /\ UNCHANGED <<argVars, optVars, logVars, exitVars, procVars>>

\* cipher_pad.ull ^= one_time_pad.ull
Xor(here, next) ==
    /\ pc = here
    /\ cipher_pad' = XorUll(cipher_pad, one_time_pad)
    /\ pc' = next
    /\ UNCHANGED <<cipher_size, otp_size, quot, rem, i, one_time_pad>>
    /\ UNCHANGED <<argVars, optVars, logVars, fileVars, exitVars, ghostVars, procVars>>

\* fwrite(cipher_pad.c, sizeof(char), n, output), and ++i when in the loop
WriteOut(here, next, n, step) ==
    /\ pc = here
    /\ out_data' = Fwrite(out_data, cipher_pad, n)
    /\ i' = i + step
    /\ pc' = next
    /\ UNCHANGED <<in_data, in_pos, otp_data, otp_pos>>
    /\ UNCHANGED <<cipher_size, otp_size, quot, rem, one_time_pad, cipher_pad>>
    /\ UNCHANGED <<argVars, optVars, logVars, exitVars, ghostVars, procVars>>

(********************************* encrypt *********************************)
\* lines 257-265: measure the plain text, refuse a size <= 0, split it
\* into blocks
EncEntry ==
    /\ pc = "enc_size"
    /\ cipher_size' = fsize(in_data)
    /\ entry_in' = in_data
    /\ IF InvalidSize(cipher_size')
         THEN /\ invalid_file_size
              /\ UNCHANGED <<quot, rem>>
         ELSE /\ quot' = cipher_size' \div ULL_SIZE
              /\ rem' = cipher_size' % ULL_SIZE
              /\ pc' = "enc_loop"
              /\ UNCHANGED exitVars
    /\ cipher_pad' = ZeroContainer
    /\ UNCHANGED <<otp_size, i, one_time_pad>>
    /\ UNCHANGED <<draws, rand_failed, entry_pad, plain, torn, short_at>>
    /\ UNCHANGED <<argVars, optVars, logVars, fileVars, procVars>>

\* a loop body that never writes the cipher text: the block is dropped and
\* the next word is drawn
EncBodyNextDropsWrite(here) ==
    CASE here = "enc_loop" -> "enc_wpad"
      [] here = "enc_wpad" -> "enc_read"
      [] here = "enc_read" -> "enc_xor"
      [] here = "enc_xor" -> "enc_loop"
      [] OTHER -> "enc_loop"

\* the statement order of the loop body, lines 276-288: the draw, the pad
\* write, the read, the exclusive or, the cipher write, then the loop test
EncBodyNext(here) ==
    CASE here = "enc_loop" -> "enc_wpad"
      [] here = "enc_wpad" -> "enc_read"
      [] here = "enc_read" -> "enc_xor"
      [] here = "enc_xor" -> "enc_wout"
      [] OTHER -> "enc_loop"

\* lines 273-280: i < blocks_r.quot, and the draw for block i
EncDraw == i < quot /\ Draw("enc_loop", {EncBodyNext("enc_loop")})

EncDrawFail == i < quot /\ DrawFail("enc_loop", EncBodyNext("enc_loop"))

\* line 283
EncWritePad == WritePad("enc_wpad", EncBodyNext("enc_wpad"), ULL_SIZE)

\* line 284
EncRead == ReadInput("enc_read", EncBodyNext("enc_read"), ULL_SIZE)

\* line 287
EncXor == Xor("enc_xor", EncBodyNext("enc_xor"))

\* line 288, and the loop's ++i
EncWriteOut == WriteOut("enc_wout", EncBodyNext("enc_wout"), ULL_SIZE, 1)

\* lines 292-301: the loop is over, bytes remain: printf, and one more draw
EncRemDraw == i >= quot /\ rem # 0 /\ Draw("enc_loop", AfterPrintf("enc_rem_wpad"))

EncRemDrawFail == i >= quot /\ rem # 0 /\ DrawFail("enc_loop", "enc_rem_wpad")

\* line 303
EncRemWritePad == WritePad("enc_rem_wpad", "enc_rem_read", Remain)

\* line 304
EncRemRead == ReadInput("enc_rem_read", "enc_rem_xor", Remain)

\* line 305
EncRemXor == Xor("enc_rem_xor", "enc_rem_wout")

\* line 306, and encrypt returns
EncRemWriteOut == WriteOut("enc_rem_wout", "enc_done", Remain, 0)

\* line 292 with no byte remaining: encrypt returns
EncNoRemainder ==
    /\ pc = "enc_loop" /\ i >= quot /\ rem = 0
    /\ pc' = "enc_done"
    /\ UNCHANGED <<argVars, optVars, logVars, fileVars, engVars, exitVars,
                   ghostVars, procVars>>

(********************************* decrypt *********************************)
\* lines 316-328: measure both files, refuse a size <= 0, refuse sizes that
\* differ, split into blocks
DecEntry ==
    /\ pc = "dec_size"
    /\ cipher_size' = fsize(in_data)
    /\ entry_in' = in_data
    /\ entry_pad' = otp_data
    /\ IF InvalidSize(cipher_size')
         THEN /\ invalid_file_size
              /\ UNCHANGED <<otp_size, quot, rem>>
         ELSE /\ otp_size' = fsize(otp_data)
              /\ IF InvalidSize(otp_size')
                   THEN /\ invalid_file_size
                        /\ UNCHANGED <<quot, rem>>
                   ELSE IF SizesDiffer(cipher_size', otp_size')
                     THEN /\ size_missmatch
                          /\ UNCHANGED <<quot, rem>>
                     ELSE /\ quot' = cipher_size' \div ULL_SIZE
                          /\ rem' = cipher_size' % ULL_SIZE
                          /\ pc' = "dec_loop"
                          /\ UNCHANGED exitVars
    /\ one_time_pad' = ZeroContainer
    /\ cipher_pad' = ZeroContainer
    /\ UNCHANGED i
    /\ UNCHANGED <<draws, rand_failed, plain, torn, short_at>>
    /\ UNCHANGED <<argVars, optVars, logVars, fileVars, procVars>>

\* line 336 and line 338
DecReadPad == i < quot /\ ReadPad("dec_loop", "dec_read", ULL_SIZE)

\* line 339
DecRead == ReadInput("dec_read", "dec_xor", ULL_SIZE)

\* line 341
DecXor == Xor("dec_xor", "dec_wout")

\* line 342, and the loop's ++i
DecWriteOut == WriteOut("dec_wout", "dec_loop", ULL_SIZE, 1)

\* lines 346-349
DecRemReadPad == i >= quot /\ rem # 0 /\ ReadPad("dec_loop", "dec_rem_read", Remain)

\* line 350
DecRemRead == ReadInput("dec_rem_read", "dec_rem_xor", Remain)

\* line 352
DecRemXor == Xor("dec_rem_xor", "dec_rem_wout")

\* line 353, and decrypt returns
DecRemWriteOut == WriteOut("dec_rem_wout", "dec_done", Remain, 0)

\* line 346 with no byte remaining: decrypt returns
DecNoRemainder ==
    /\ pc = "dec_loop" /\ i >= quot /\ rem = 0
    /\ pc' = "dec_done"
    /\ UNCHANGED <<argVars, optVars, logVars, fileVars, engVars, exitVars,
                   ghostVars, procVars>>

(***************************** the environment *****************************)
\* the positions at which the engine holds measured sizes and still reads
Reading ==
    {"enc_loop", "enc_wpad", "enc_read", "enc_rem_wpad", "enc_rem_read",
     "dec_loop", "dec_read", "dec_rem_read"}

\* another process cuts the tail of the input file while the engine runs
TruncateInput ==
    /\ pc \in Reading /\ ~torn /\ run = 1
    /\ \E c \in 1..MaxCut :
         /\ Len(in_data) >= c
         /\ in_data' = SubSeq(in_data, 1, Len(in_data) - c)
    /\ torn' = TRUE
    /\ UNCHANGED <<in_pos, otp_data, otp_pos, out_data>>
    /\ UNCHANGED <<draws, rand_failed, entry_in, entry_pad, plain, short_at>>
    /\ UNCHANGED <<pc, argVars, optVars, logVars, engVars, exitVars, procVars>>

\* another process cuts the tail of the pad while decrypt runs
TruncatePad ==
    /\ pc \in {"dec_loop"} /\ ~torn /\ run = 1
    /\ \E c \in 1..MaxCut :
         /\ Len(otp_data) >= c
         /\ otp_data' = SubSeq(otp_data, 1, Len(otp_data) - c)
    /\ torn' = TRUE
    /\ UNCHANGED <<in_data, in_pos, otp_pos, out_data>>
    /\ UNCHANGED <<draws, rand_failed, entry_in, entry_pad, plain, short_at>>
    /\ UNCHANGED <<pc, argVars, optVars, logVars, engVars, exitVars, procVars>>

\* the user runs the program again, to decrypt what the finished encryption
\* wrote: -d output.txt -p one-time-pad.otp
Relaunch ==
    /\ pc = "returned" /\ run = 1 /\ program_mode = OTP_ENCRYPT /\ ~torn
    /\ run' = 2
    /\ disk' = [cipher |-> out_data, pad |-> otp_data]
    /\ plain' = entry_in
    /\ pc' = "start"
    /\ args' = <<"-d", EncOutputName, "-p", DefaultOtpName>>
    /\ argc' = 5
    /\ program_mode' = OTP_NULLMODE
    /\ input_file_name' = NULL
    /\ otp_file_name' = NULL
    /\ verbose_print' = FALSE
    /\ verbose_printer' = "devnull"
    /\ devnull_open' = TRUE
    /\ stdout_open' = TRUE
    /\ devnull_closes' = 0
    /\ wrote_closed' = FALSE
    /\ in_data' = <<>> /\ in_pos' = 0
    /\ otp_data' = <<>> /\ otp_pos' = 0
    /\ out_data' = <<>>
    /\ cipher_size' = 0 /\ otp_size' = 0 /\ quot' = 0 /\ rem' = 0 /\ i' = 0
    /\ one_time_pad' = ZeroContainer
    /\ cipher_pad' = ZeroContainer
    /\ exit_code' = -1
    /\ failure' = "none"
    /\ draws' = <<>>
    /\ rand_failed' = FALSE
    /\ entry_in' = NoFile /\ entry_pad' = NoFile
    /\ UNCHANGED <<torn, short_at>>

Next ==
    \/ MainStart \/ OptE \/ OptD \/ OptP \/ OptNoop \/ OptV \/ OptInvalid
    \/ OptionsDone
    \/ EncOpenInput \/ EncOpenOtp \/ EncOpenOutput
    \/ DecOpenInput \/ DecOpenOtp \/ DecOpenOutput
    \/ EngineReturned \/ Finish
    \/ EncEntry \/ EncDraw \/ EncDrawFail \/ EncWritePad \/ EncRead \/ EncXor
    \/ EncWriteOut \/ EncRemDraw \/ EncRemDrawFail \/ EncRemWritePad
    \/ EncRemRead \/ EncRemXor \/ EncRemWriteOut \/ EncNoRemainder
    \/ DecEntry \/ DecReadPad \/ DecRead \/ DecXor \/ DecWriteOut
    \/ DecRemReadPad \/ DecRemRead \/ DecRemXor \/ DecRemWriteOut
    \/ DecNoRemainder
    \/ TruncateInput \/ TruncatePad \/ Relaunch

Spec == Init /\ [][Next]_vars

(********************************* claims **********************************)
\* the number of blocks of a stream of len bytes
NumBlocks(len) == (len \div ULL_SIZE) + (IF len % ULL_SIZE > 0 THEN 1 ELSE 0)

\* the first n bytes of the pad that the drawn words ws make, block by block
PadOf(ws, n) ==
    [j \in 1..n |-> ws[((j - 1) \div ULL_SIZE) + 1][((j - 1) % ULL_SIZE) + 1]]

\* the first n bytes of text, each combined with the byte of key at its offset
XorStream(text, key, n) == [j \in 1..n |-> XorBits(text[j], key[j], 8)]

IsPrefix(a, b) == Len(a) <= Len(b) /\ SubSeq(b, 1, Len(a)) = a

\* encrypt has returned to main
EncryptReturned ==
    program_mode = OTP_ENCRYPT /\ pc \in {"enc_done", "finish", "returned"}

\* decrypt has returned to main
DecryptReturned ==
    program_mode = OTP_DECRYPT /\ pc \in {"dec_done", "finish", "returned"}

\* C1: round trip.  When the second run, decrypting the cipher text and the
\* pad the first run wrote (no other process having touched the files),
\* has returned from decrypt, its output equals the plain text of the
\* first run byte for byte.
C1_RoundTrip ==
    (run = 2 /\ DecryptReturned) => out_data = plain

\* C1's case: a round trip of two full blocks and a remainder is completed
C1_Witness ==
    run = 2 /\ pc = "returned" /\ Len(plain) = (2 * ULL_SIZE) + 1 /\ out_data = plain

\* C2: length preservation.  When encrypt has returned, the plain text had
\* L > 0 bytes and both the pad and the cipher text hold exactly L bytes.
C2_LengthPreserved ==
    EncryptReturned =>
        /\ cipher_size > 0
        /\ cipher_size = Len(entry_in)
        /\ Len(otp_data) = cipher_size
        /\ Len(out_data) = cipher_size
        /\ cipher_size = (quot * ULL_SIZE) + rem

\* C2's case: encrypt returned on a file with full blocks and a remainder
C2_Witness ==
    EncryptReturned /\ quot = 1 /\ rem = 7 /\ Len(out_data) = 15

\* C3: decrypt on a cipher text and a pad of different positive lengths
\* ends with SizeMismatch, having read no byte of either and written none.
C3_SizeMismatch ==
    ( /\ program_mode = OTP_DECRYPT
      /\ entry_in # NoFile
      /\ Len(entry_in) > 0 /\ Len(entry_pad) > 0
      /\ Len(entry_in) # Len(entry_pad) )
    => /\ pc = "exited"
       /\ failure = "SizeMismatch"
       /\ in_pos = 0 /\ otp_pos = 0
       /\ out_data = <<>>

\* C3's case: a 10-byte cipher text with a 9-byte pad was refused
C3_Witness ==
    /\ program_mode = OTP_DECRYPT /\ failure = "SizeMismatch"
    /\ Len(entry_in) = 10 /\ Len(entry_pad) = 9

\* the engine was entered with an empty input, or decrypt with an empty pad
EmptyAtEntry ==
    /\ entry_in # NoFile
    /\ \/ entry_in = <<>>
       \/ program_mode = OTP_DECRYPT /\ entry_pad = <<>>

\* C4: empty input rejected.  Encrypt on an empty plain text and decrypt on
\* an empty cipher text or pad end with InvalidSize, with no word drawn, no
\* byte read and no byte written to the pad (encrypt) or to the output.
C4_EmptyRejected ==
    EmptyAtEntry =>
        /\ pc = "exited"
        /\ failure = "InvalidSize"
        /\ exit_code = EXIT_INVALID_SIZE
        /\ draws = <<>> /\ ~rand_failed
        /\ in_pos = 0 /\ otp_pos = 0
        /\ out_data = <<>>
        /\ (program_mode = OTP_ENCRYPT => otp_data = <<>>)

\* C4's case: decrypt was given a cipher text and an empty pad
C4_Witness ==
    /\ program_mode = OTP_DECRYPT /\ failure = "InvalidSize"
    /\ Len(entry_in) > 0 /\ entry_pad = <<>>

\* C5: short read detection.  Once an fread has returned fewer bytes than
\* asked for, the engine writes no output for that block or any later one
\* (the output keeps the length it had at that read) and does not return
\* to main as if it had succeeded.
C5_ShortReadAborts ==
    short_at # -1 =>
        /\ Len(out_data) = short_at
        /\ pc \notin {"enc_done", "dec_done", "finish", "returned"}

\* C6: entropy failure.  Once _rdrand64_step has failed, on the draw for
\* block i, the process has ended with the entropy status, no later draw
\* was made, and the pad and the cipher text hold exactly blocks 0..i-1:
\* 8*i bytes each, the pad the words drawn, the cipher text the plain text
\* combined with them.
C6_EntropyFailureAborts ==
    rand_failed =>
        /\ pc = "exited"
        /\ failure = "EntropyUnavailable"
        /\ exit_code = EXIT_RDRAND
        /\ Len(draws) = i
        /\ otp_data = PadOf(draws, ULL_SIZE * i)
        /\ Len(out_data) = ULL_SIZE * i
        /\ in_pos <= ULL_SIZE * i
        /\ (~torn => /\ in_pos = ULL_SIZE * i
                     /\ out_data = XorStream(entry_in, otp_data, ULL_SIZE * i))

\* C6's case: the draw for the remainder block, after two full blocks, failed
C6_Witness ==
    rand_failed /\ pc = "exited" /\ i = 2 /\ Len(out_data) = 2 * ULL_SIZE

\* C7: exit status per failure class.  A size failure (invalid size, size
\* mismatch) never ends with the status of an entropy failure, status 3
\* means the random source failed, and an invalid size ends with status 2.
C7_DistinctExitStatus ==
    /\ (failure \in {"InvalidSize", "SizeMismatch"} => exit_code # EXIT_RDRAND)
    /\ (exit_code = 3 => failure = "EntropyUnavailable")
    /\ (failure = "InvalidSize" => exit_code = 2)

\* C8: no pad word reuse.  When encrypt has returned it has drawn one word
\* per block, floor(L/8) plus one for a remainder; the pad holds word b at
\* block b and the cipher text block b is the plain text block b combined
\* with word b.
C8_OneWordPerBlock ==
    EncryptReturned =>
        /\ Len(draws) = NumBlocks(cipher_size)
        /\ otp_data = PadOf(draws, cipher_size)
        /\ (~torn => out_data = XorStream(entry_in, PadOf(draws, cipher_size),
                                          cipher_size))

\* C8's case: 9 bytes, one word for the full block and a different second
\* word for the 1-byte remainder
C8_Witness ==
    /\ EncryptReturned /\ cipher_size = ULL_SIZE + 1
    /\ Len(draws) = 2 /\ draws[1] # draws[2]

\* C9: block ordering in encrypt.  A word is drawn only when every earlier
\* block is complete on both the pad and the cipher text; the pad write,
\* the read, the exclusive or and the cipher write of block i happen after
\* the draw for block i; both streams only grow, at the offset of block i;
\* a write of fewer than 8 bytes, the remainder, completes the stream.
C9_BlockOrder ==
    [][ (program_mode = OTP_ENCRYPT /\ program_mode' = OTP_ENCRYPT /\ entry_in # NoFile)
        => /\ (draws' # draws =>
                 /\ Len(draws) = i
                 /\ Len(otp_data) = ULL_SIZE * i
                 /\ Len(out_data) = ULL_SIZE * i)
           /\ ((in_pos' # in_pos \/ cipher_pad' # cipher_pad) =>
                 Len(draws) = i + 1)
           /\ (otp_data' # otp_data =>
                 /\ Len(draws) = i + 1
                 /\ Len(otp_data) = ULL_SIZE * i
                 /\ IsPrefix(otp_data, otp_data')
                 /\ Len(otp_data') \in {ULL_SIZE * (i + 1), cipher_size})
           /\ (out_data' # out_data =>
                 /\ Len(draws) = i + 1
                 /\ Len(out_data) = ULL_SIZE * i
                 /\ IsPrefix(out_data, out_data')
                 /\ Len(out_data') \in {ULL_SIZE * (i + 1), cipher_size})
      ]_vars

\* C9's case: the remainder block is being written after two full blocks
C9_Witness ==
    /\ program_mode = OTP_ENCRYPT /\ pc = "enc_rem_wout"
    /\ Len(draws) = 3 /\ Len(out_data) = 2 * ULL_SIZE

\* C10: verbose log stream safety.  main never writes a debug line to a
\* closed stream, the fclose calls on verbose_printer never close standard
\* output, and when main returns the /dev/null stream was closed exactly
\* once.
C10_VerboseStreamSafe ==
    /\ ~wrote_closed
    /\ stdout_open
    /\ (pc = "returned" => devnull_closes = 1)

=============================================================================
